---- MODULE Spec2Model ----
(***************************************************************************)
(* Redirect Preview Resolution Engine (shared/db_access.py).               *)
(*                                                                         *)
(* Strings are sequences of atoms: an atom is one character (" ", "/")     *)
(* or a run of letters that the code never splits ("token", "http").       *)
(* Python values are tagged records so that None, strings, numbers, lists  *)
(* and dicts can sit in the same field, as they can in a decoded JSON row. *)
(* Durations are in hundredths of a second.                                *)
(***************************************************************************)
EXTENDS Integers, Sequences, FiniteSets, TLC

VARIABLES
    pc,         \* position of the caller of get_redirect_preview
    retries,    \* DAB_RETRIES
    backoff,    \* DAB_BACKOFF_FACTOR
    dabBase,    \* DAB_BASE_URL
    disk,       \* redirect_previews/lenders: key -> file state
    token,      \* argument of get_redirect_preview
    tok,        \* token after strip()
    url,        \* lookup URL of the call
    attempt,    \* _http_get_with_retries: attempt
    calls,      \* number of urlopen calls made
    sleeps,     \* durations passed to time.sleep, in order
    last,       \* outcome of the most recent urlopen call
    body,       \* body returned by _http_get_with_retries
    row,        \* result of _dab_lookup
    store,      \* _lender_cache.store, least recently used first
    now,        \* time.time()
    cacheGets,  \* number of _lender_cache.get calls
    cacheSets,  \* number of _lender_cache.set calls
    loads,      \* number of lender files opened
    result,     \* what get_redirect_preview gave its caller
    th,         \* concurrent callers inside get_redirect_preview, row in hand
    lock,       \* holder of _lender_cache.lock, 0 when free
    recent,     \* history: cache keys by last use, least recent first
    maxLoads,   \* how many config lookups a run may start
    maxTime,    \* how far time.time() may advance in a run
    raw,        \* two raw partner names
    keys,       \* their cache keys, and the keys of those keys
    req,        \* purview_preview.main: the requests being handled
    previewCache,     \* purview_preview._preview_cache
    lenderJsonCache,  \* purview_preview._lender_json_cache["fallback"]
    remote,     \* the redirect rows the DAB API holds, by token
    maxReqs,    \* how many more requests a run may start
    publicBase  \* PUBLIC_BASE_URL of the deployment

resolverVars ==
    <<pc, retries, backoff, dabBase, disk, token, tok, url, attempt, calls,
      sleeps, last, body, row, store, now, cacheGets, cacheSets, loads, result>>

normVars == <<raw, keys>>

handlerVars == <<req, previewCache, lenderJsonCache, remote, maxReqs, publicBase>>

extVars == <<th, lock, recent, maxLoads, maxTime, normVars, handlerVars>>

vars == <<resolverVars, extVars>>

-----------------------------------------------------------------------------
(* Bounds *)

MaxRetries == 2
MaxTokenLen == 2
NumThreads == 2
MaxLoads == 4
MaxTime == 3
MaxLockLoads == 2
MaxNameLen == 4
MaxRequests == 3

-----------------------------------------------------------------------------
(* Python values *)

PyNone == [t |-> "none", s |-> <<>>, n |-> 0]
PyStr(s) == [t |-> "str", s |-> s, n |-> 0]
PyInt(n) == [t |-> "int", s |-> <<>>, n |-> n]
PyList(n) == [t |-> "list", s |-> <<>>, n |-> n]    \* a list of n elements
PyDict(n) == [t |-> "dict", s |-> <<>>, n |-> n]    \* a dict of n keys

\* bool(v)
Truthy(v) ==
    CASE v.t = "none" -> FALSE
      [] v.t = "str" -> v.s # <<>>
      [] OTHER -> v.n # 0

\* a or b
PyOr(a, b) == IF Truthy(a) THEN a ELSE b

Whitespace == {" ", "\t", "\n"}

RECURSIVE LStrip(_)
LStrip(s) == IF s # <<>> /\ Head(s) \in Whitespace THEN LStrip(Tail(s)) ELSE s

RECURSIVE RStrip(_)
RStrip(s) ==
    IF s # <<>> /\ s[Len(s)] \in Whitespace THEN RStrip(SubSeq(s, 1, Len(s) - 1)) ELSE s

\* str.strip()
Strip(s) == RStrip(LStrip(s))

\* str.lower(), atom by atom
LowerAtom(c) ==
    CASE c = "P" -> "p"
      [] c = "M" -> "m"
      [] c = "HTTP" -> "http"
      [] OTHER -> c

Lower(s) == [i \in 1..Len(s) |-> LowerAtom(s[i])]

\* str.replace(" ", "_")
ReplaceSpace(s) == [i \in 1..Len(s) |-> IF s[i] = " " THEN "_" ELSE s[i]]

\* re.sub(r"\s+", "_", s)
RECURSIVE CollapseWhitespace(_)
CollapseWhitespace(s) ==
    IF s = <<>> THEN <<>>
    ELSE IF Head(s) \in Whitespace THEN <<"_">> \o CollapseWhitespace(LStrip(Tail(s)))
    ELSE <<Head(s)>> \o CollapseWhitespace(Tail(s))

\* first index of an atom of set cs in s at or after position from, 0 if none
RECURSIVE FindFrom(_, _, _)
FindFrom(s, cs, from) ==
    IF from > Len(s) THEN 0
    ELSE IF s[from] \in cs THEN from
    ELSE FindFrom(s, cs, from + 1)

-----------------------------------------------------------------------------
(* Configuration.  The cache limits are scaled down (the source defaults   *)
(* are 3600 seconds and 128 entries); the backoff is 0.35 s in hundredths. *)
(* db_access imports the two DEFAULT_ names from shared.config, which has  *)
(* them as the defaults of Settings.default_og_image_url and               *)
(* Settings.default_theme_color.                                           *)

DAB_BASE_URL == <<"https://duit-dab-api", "/", "api">>
DAB_REDIRECTS_PATH == <<"redirects">>
DAB_RETRIES == 2
DAB_BACKOFF_FACTOR == 35
LENDER_CACHE_TTL == 2
LENDER_CACHE_MAX == 2
DEFAULT_OG_IMAGE_URL == PyStr(<<"https://stduitcampaigns.blob.core.windows.net/purview-assets/defaults/hero.jpg">>)
DEFAULT_THEME_COLOR == PyStr(<<"#0E5DF2">>)

-----------------------------------------------------------------------------
(* URL validation *)

SchemeAtoms == {"http", "https", "HTTP", "ftp", "h"}

\* urllib.parse.urlsplit, as far as scheme and netloc: leading blanks are
\* dropped, the scheme is the run of scheme characters before the first ":",
\* the netloc is what follows "//" up to the first of "/", "?", "#".
UrlBody(u) == LStrip(u)

UrlColon(u) == FindFrom(UrlBody(u), {":"}, 1)

UrlHasScheme(u) ==
    /\ UrlColon(u) > 1
    /\ \A i \in 1..(UrlColon(u) - 1) : UrlBody(u)[i] \in SchemeAtoms

UrlScheme(u) ==
    IF UrlHasScheme(u) THEN Lower(SubSeq(UrlBody(u), 1, UrlColon(u) - 1)) ELSE <<>>

UrlRest(u) ==
    IF UrlHasScheme(u) THEN SubSeq(UrlBody(u), UrlColon(u) + 1, Len(UrlBody(u)))
    ELSE UrlBody(u)

UrlHasAuthority(u) ==
    Len(UrlRest(u)) >= 2 /\ UrlRest(u)[1] = "/" /\ UrlRest(u)[2] = "/"

UrlNetloc(u) ==
    IF UrlHasAuthority(u)
    THEN LET r == UrlRest(u)
             d == FindFrom(r, {"/", "?", "#"}, 3)
         IN  SubSeq(r, 3, IF d = 0 THEN Len(r) ELSE d - 1)
    ELSE <<>>

\* urlsplit raises ValueError("Invalid IPv6 URL") on an unbalanced bracket
UrlParseRaises(u) ==
    LET nl == UrlNetloc(u)
        open == \E i \in 1..Len(nl) : nl[i] = "["
        close == \E i \in 1..Len(nl) : nl[i] = "]"
    IN  open # close

\* a validator that forgets the netloc test
IsValidHttpUrlSchemeOnly(v) ==
    /\ Truthy(v)
    /\ v.t = "str"
    /\ ~UrlParseRaises(v.s)
    /\ UrlScheme(v.s) \in {<<"http">>, <<"https">>}

\* _is_valid_http_url: a non-string makes urlparse raise, which is caught
_is_valid_http_url(v) ==
    /\ Truthy(v)
    /\ v.t = "str"
    /\ ~UrlParseRaises(v.s)
    /\ UrlScheme(v.s) \in {<<"http">>, <<"https">>}
    /\ UrlNetloc(v.s) # <<>>

-----------------------------------------------------------------------------
(* Remote lookup: response parsing *)

\* A decoded JSON object used as a row: row.get(k) is None for a key that is
\* missing and for a key that holds null.
NullRow ==
    [destination_url |-> PyNone, dest_url |-> PyNone, destination |-> PyNone,
     url |-> PyNone, lender |-> PyNone, partner |-> PyNone, mobile |-> PyNone,
     msisdn |-> PyNone, campaign_id |-> PyNone, campaign |-> PyNone]

\* A decoded JSON value in a place where a row is expected: an object with
\* at least one key (isRow), or any other value (val).
RowElem(r) == [isRow |-> TRUE, row |-> r, val |-> PyNone]
ValElem(v) == [isRow |-> FALSE, row |-> NullRow, val |-> v]
NoneElem == ValElem(PyNone)

ElemTruthy(e) == e.isRow \/ Truthy(e.val)
ElemIsDict(e) == e.isRow \/ e.val.t = "dict"

\* The decoded body: an object with a "value" key (hasValue) or not, whose
\* value (or itself) is a list (items) or a single value (one).
ListPayload(env, items) == [hasValue |-> env, isList |-> TRUE, items |-> items, one |-> NoneElem]
OnePayload(env, e) == [hasValue |-> env, isList |-> FALSE, items |-> <<>>, one |-> e]

EmptyBody == [kind |-> "empty", payload |-> OnePayload(FALSE, NoneElem)]
NotJsonBody == [kind |-> "notjson", payload |-> OnePayload(FALSE, NoneElem)]
JsonBody(p) == [kind |-> "json", payload |-> p]

NoRow == [st |-> "none", destination_url |-> PyNone, lender |-> PyNone,
          mobile |-> PyNone, campaign_id |-> PyNone]
RaisedRow == [NoRow EXCEPT !.st = "raise"]

\* `if not rows`
RowsTruthy(p) == IF p.isList THEN Len(p.items) > 0 ELSE ElemTruthy(p.one)

\* a choice of row that takes the last element of a list
FirstRowTakesLast(p) ==
    IF p.isList /\ Len(p.items) > 0 THEN p.items[Len(p.items)]
    ELSE IF ~p.isList /\ ElemIsDict(p.one) THEN p.one
    ELSE NoneElem

\* rows[0] if isinstance(rows, list) and len(rows) > 0
\*         else (rows if isinstance(rows, dict) else None)
FirstRow(p) ==
    IF p.isList /\ Len(p.items) > 0 THEN p.items[1]
    ELSE IF ~p.isList /\ ElemIsDict(p.one) THEN p.one
    ELSE NoneElem

\* row.get("lender")
RowLender(r) == r.lender

\* the destination field: first non-empty of the four keys
RowDestination(r) ==
    PyOr(r.destination_url, PyOr(r.dest_url, PyOr(r.destination, r.url)))

\* an extraction that lets a row without a partner through
ExtractRowKeepsLenderless(e) ==
    LET r == IF e.isRow THEN e.row ELSE NullRow
        destination == RowDestination(r)
        lender == RowLender(r)
    IN  IF ~ElemIsDict(e) THEN RaisedRow
        ELSE IF ~Truthy(destination) \/ ~_is_valid_http_url(destination) THEN NoRow
        ELSE [st |-> "row", destination_url |-> destination, lender |-> lender,
              mobile |-> PyOr(r.mobile, r.msisdn),
              campaign_id |-> PyOr(r.campaign_id, r.campaign)]

\* _dab_lookup from the decoded body on: field extraction and validation
ExtractRow(e) ==
    LET r == IF e.isRow THEN e.row ELSE NullRow
        destination == RowDestination(r)
        lender == RowLender(r)
    IN  IF ~ElemIsDict(e) THEN RaisedRow          \* row.get: AttributeError
        ELSE IF ~Truthy(destination) \/ ~_is_valid_http_url(destination) THEN NoRow
        ELSE IF ~Truthy(lender) THEN NoRow
        ELSE [st |-> "row", destination_url |-> destination, lender |-> lender,
              mobile |-> PyOr(r.mobile, r.msisdn),
              campaign_id |-> PyOr(r.campaign_id, r.campaign)]

\* _dab_lookup after _http_get_with_retries has returned b
_dab_lookup(b) ==
    IF b.kind = "empty" THEN NoRow                \* if not body
    ELSE IF b.kind = "notjson" THEN NoRow         \* json.loads raised
    ELSE IF ~RowsTruthy(b.payload) THEN NoRow
    ELSE IF ~ElemTruthy(FirstRow(b.payload)) THEN NoRow
    ELSE ExtractRow(FirstRow(b.payload))

-----------------------------------------------------------------------------
(* Lender configuration documents and their cache *)

\* A decoded lender document: a dict of n keys with the four optional
\* fields, or another JSON value (t, n as for Python values).
CfgDict(n, ti, de, im, tc) ==
    [t |-> "dict", n |-> n, title |-> ti, description |-> de,
     image_url |-> im, theme_color |-> tc]
CfgOther(t, n) ==
    [t |-> t, n |-> n, title |-> PyNone, description |-> PyNone,
     image_url |-> PyNone, theme_color |-> PyNone]
CfgNone == CfgOther("none", 0)

CfgTruthy(c) == c.t # "none" /\ c.n # 0

FileMissing == [st |-> "missing", doc |-> CfgNone]
FileMalformed == [st |-> "malformed", doc |-> CfgNone]
FileOk(d) == [st |-> "ok", doc |-> d]

\* _normalize_lender
_normalize_lender(name) == ReplaceSpace(Lower(Strip(name)))

\* index of key in the store, 0 if absent
RECURSIVE StoreIndex(_, _, _)
StoreIndex(st, key, i) ==
    IF i > Len(st) THEN 0
    ELSE IF st[i].key = key THEN i
    ELSE StoreIndex(st, key, i + 1)

StoreWithout(st, i) == SubSeq(st, 1, i - 1) \o SubSeq(st, i + 1, Len(st))

\* a get that returns a hit without moving the entry to the end
LruGetNoMove(st, key, time) ==
    LET i == StoreIndex(st, key, 1)
    IN  IF i = 0 THEN [found |-> FALSE, data |-> CfgNone, store |-> st]
        ELSE IF time - st[i].ts > LENDER_CACHE_TTL
             THEN [found |-> FALSE, data |-> CfgNone, store |-> StoreWithout(st, i)]
        ELSE [found |-> TRUE, data |-> st[i].data, store |-> st]

\* a get that never looks at the age of the entry
LruGetNoTtl(st, key, time) ==
    LET i == StoreIndex(st, key, 1)
    IN  IF i = 0 THEN [found |-> FALSE, data |-> CfgNone, store |-> st]
        ELSE [found |-> TRUE, data |-> st[i].data,
              store |-> Append(StoreWithout(st, i), st[i])]

\* a get whose hit stamps the entry with the time of the read
LruGetRefreshTs(st, key, time) ==
    LET i == StoreIndex(st, key, 1)
    IN  IF i = 0 THEN [found |-> FALSE, data |-> CfgNone, store |-> st]
        ELSE IF time - st[i].ts > LENDER_CACHE_TTL
             THEN [found |-> FALSE, data |-> CfgNone, store |-> StoreWithout(st, i)]
        ELSE [found |-> TRUE, data |-> st[i].data,
              store |-> Append(StoreWithout(st, i), [st[i] EXCEPT !.ts = time])]

\* LruTtlCache.get: the data returned (found) and the store afterwards
LruGet(st, key, time) ==
    LET i == StoreIndex(st, key, 1)
    IN  IF i = 0 THEN [found |-> FALSE, data |-> CfgNone, store |-> st]
        ELSE IF time - st[i].ts > LENDER_CACHE_TTL
             THEN [found |-> FALSE, data |-> CfgNone, store |-> StoreWithout(st, i)]
        ELSE [found |-> TRUE, data |-> st[i].data,
              store |-> Append(StoreWithout(st, i), st[i])]

\* an eviction loop that stops one entry early
EvictOldestOffByOne(st) ==
    IF Len(st) > LENDER_CACHE_MAX + 1
    THEN SubSeq(st, Len(st) - LENDER_CACHE_MAX, Len(st))
    ELSE st

RECURSIVE EvictOldest(_)
EvictOldest(st) == IF Len(st) > LENDER_CACHE_MAX THEN EvictOldest(Tail(st)) ELSE st

\* a set that stores an empty document in place of the one it was given
LruSetStoresEmpty(st, key, value, time) ==
    LET i == StoreIndex(st, key, 1)
        base == IF i = 0 THEN st ELSE StoreWithout(st, i)
    IN  EvictOldest(Append(base, [key |-> key, ts |-> time,
                                  data |-> CfgDict(0, PyNone, PyNone, PyNone, PyNone)]))

\* LruTtlCache.set
LruSet(st, key, value, time) ==
    LET i == StoreIndex(st, key, 1)
        base == IF i = 0 THEN st ELSE StoreWithout(st, i)
    IN  EvictOldest(Append(base, [key |-> key, data |-> value, ts |-> time]))

\* _load_lender_json for a lender that is a string: the document returned
\* (CfgNone for None), the store afterwards and what was touched
_load_lender_json(st, files, lender_name, time) ==
    LET normalized == _normalize_lender(lender_name)
        g == LruGet(st, normalized, time)
        f == IF normalized \in DOMAIN files THEN files[normalized] ELSE FileMissing
    IN  IF g.found /\ g.data.t # "none"
        THEN [cfg |-> g.data, store |-> g.store, opened |-> 0, sets |-> 0]
        ELSE IF f.st = "missing"
        THEN [cfg |-> CfgNone, store |-> g.store, opened |-> 0, sets |-> 0]
        ELSE IF f.st = "malformed"
        THEN [cfg |-> CfgNone, store |-> g.store, opened |-> 1, sets |-> 0]
        ELSE [cfg |-> f.doc, store |-> LruSet(g.store, normalized, f.doc, time),
              opened |-> 1, sets |-> 1]

-----------------------------------------------------------------------------
(* Preview resolver *)

NoMeta == [lender |-> PyNone, mobile |-> PyNone, campaign_id |-> PyNone,
           fallback |-> "absent"]

Pending ==
    [st |-> "pending", token |-> <<>>, title |-> PyNone, description |-> PyNone,
     image_url |-> PyNone, theme_color |-> PyNone, target_url |-> PyNone,
     canonical_url |-> PyNone, meta |-> NoMeta]
ReturnedNone == [Pending EXCEPT !.st = "none"]
Raised == [Pending EXCEPT !.st = "raised"]

\* `if not token` / token.strip() / `if not token`, without the second test
TokenInvalidNoStrip(t) == t.t = "none" \/ t.s = <<>>

\* get_redirect_preview: the two early returns
TokenInvalid(t) == t.t = "none" \/ t.s = <<>> \/ Strip(t.s) = <<>>

\* the fallback preview with the destination left out of canonical_url
FallbackPreviewNoCanonical(t, r) ==
    [st |-> "record", token |-> t,
     title |-> PyStr(<<"Your loan preview is ready">>),
     description |-> PyStr(<<"Tap to view your personalised loan offer.">>),
     image_url |-> DEFAULT_OG_IMAGE_URL,
     theme_color |-> DEFAULT_THEME_COLOR,
     target_url |-> r.destination_url,
     canonical_url |-> PyNone,
     meta |-> [lender |-> r.lender, mobile |-> r.mobile,
               campaign_id |-> r.campaign_id, fallback |-> "true"]]

\* get_redirect_preview: the preview returned when cfg is falsy
FallbackPreview(t, r) ==
    [st |-> "record", token |-> t,
     title |-> PyStr(<<"Your loan preview is ready">>),
     description |-> PyStr(<<"Tap to view your personalised loan offer.">>),
     image_url |-> DEFAULT_OG_IMAGE_URL,
     theme_color |-> DEFAULT_THEME_COLOR,
     target_url |-> r.destination_url,
     canonical_url |-> r.destination_url,
     meta |-> [lender |-> r.lender, mobile |-> r.mobile,
               campaign_id |-> r.campaign_id, fallback |-> "true"]]

\* get_redirect_preview: the preview merged from a dict cfg and the row;
\* its meta has no "fallback" key
MergedPreview(t, r, cfg) ==
    [st |-> "record", token |-> t,
     title |-> PyOr(cfg.title,
                    PyStr(<<"Your ">> \o r.lender.s \o <<" loan preview is ready">>)),
     description |-> PyOr(cfg.description, PyStr(<<>>)),
     image_url |-> PyOr(cfg.image_url, DEFAULT_OG_IMAGE_URL),
     theme_color |-> PyOr(cfg.theme_color, DEFAULT_THEME_COLOR),
     target_url |-> r.destination_url,
     canonical_url |-> r.destination_url,
     meta |-> [lender |-> r.lender, mobile |-> r.mobile,
               campaign_id |-> r.campaign_id, fallback |-> "absent"]]

\* get_redirect_preview from `if not cfg` on: cfg.get raises AttributeError
\* on a truthy document that is not a dict
BuildPreview(t, r, cfg) ==
    IF ~CfgTruthy(cfg) THEN FallbackPreview(t, r)
    ELSE IF cfg.t # "dict" THEN Raised
    ELSE MergedPreview(t, r, cfg)

-----------------------------------------------------------------------------
(* Remote lookup: request construction and retry loop *)

\* str.rstrip("/")
RECURSIVE RStripSlash(_)
RStripSlash(s) ==
    IF s # <<>> /\ s[Len(s)] = "/" THEN RStripSlash(SubSeq(s, 1, Len(s) - 1)) ELSE s

RECURSIVE LStripSlash(_)
LStripSlash(s) == IF s # <<>> /\ Head(s) = "/" THEN LStripSlash(Tail(s)) ELSE s

\* str.strip("/")
StripSlash(s) == RStripSlash(LStripSlash(s))

\* characters urllib.parse.quote never encodes: letters, digits, "_.-~"
AlwaysSafe == {"token", "eq", "a", "b", "_", ".", "-", "~"}

PercentEncoded(c) ==
    CASE c = " " -> "%20"
      [] c = "/" -> "%2F"
      [] c = "&" -> "%26"
      [] c = "%" -> "%25"
      [] c = "'" -> "%27"
      [] c = "=" -> "%3D"
      [] OTHER -> c

\* urllib.parse.quote(s, safe)
Quote(s, safe) ==
    [i \in 1..Len(s) |-> IF s[i] \in AlwaysSafe \cup safe THEN s[i] ELSE PercentEncoded(s[i])]

\* f"token eq '{token}'"
FilterValue(t) == <<"token", " ", "eq", " ", "'">> \o t \o <<"'">>

\* an origin-relative join: the path replaces whatever follows the origin
BuildUrlOriginRelative(base, path, t) ==
    SubSeq(base, 1, 1) \o <<"/">> \o StripSlash(path) \o <<"?$filter=">>
        \o Quote(FilterValue(t), {" ", "=", "'"}) \o <<"&$top=1">>

\* _build_dab_url_for_token, DAB_BASE_URL and DAB_REDIRECTS_PATH as arguments
_build_dab_url_for_token(base, path, t) ==
    RStripSlash(base) \o <<"/">> \o StripSlash(path) \o <<"?$filter=">>
        \o Quote(FilterValue(t), {" ", "=", "'"}) \o <<"&$top=1">>

NoOutcome == [kind |-> "none", status |-> 0]

\* what one urlopen call can do: return a response with a status, raise
\* HTTPError with a code (0 for a code of None), raise URLError, or raise
\* anything else (reading or decoding the body included); a 200 carries a
\* body, the other statuses listed here an empty one
RespStatuses == {204, 302, 400, 503}
ErrorCodes == {0, 404, 500}

\* the branch of _http_get_with_retries that retries on 4xx as well
OutcomeClassRetry4xx(kind, status) ==
    CASE kind = "resp" /\ 200 <= status /\ status < 300 -> "ok"
      [] OTHER -> "retry"

\* _http_get_with_retries: the branch one urlopen outcome takes
OutcomeClass(kind, status) ==
    CASE kind = "resp" /\ 200 <= status /\ status < 300 -> "ok"
      [] kind = "resp" /\ 400 <= status /\ status < 500 -> "client"
      [] kind = "httperror" /\ status # 0 /\ 400 <= status /\ status < 500 -> "client"
      [] OTHER -> "retry"

\* a retry test that only stops when the count meets the limit exactly
ExhaustedAtEquality(att, max) == att = max

\* a retry test that is off by one
ExhaustedOffByOne(att, max) == att > max

\* `if attempt >= retries`
Exhausted(att, max) == att >= max

RECURSIVE Pow2(_)
Pow2(k) == IF k <= 0 THEN 1 ELSE 2 * Pow2(k - 1)

\* a linear backoff
SleepTimeLinear(base, att) == base * 2 * att

\* backoff * (2 ** attempt)
SleepTime(base, att) == base * Pow2(att)

-----------------------------------------------------------------------------
(* Inputs *)

PayMe == <<"P", "a", "y", "M", "e">>
PayMeKey == <<"p", "a", "y", "m", "e">>

Tokens ==
    {PyNone, PyStr(<<>>), PyStr(<<" ">>), PyStr(<<"\t", " ">>),
     PyStr(<<"a">>), PyStr(<<" ", "a", "b", "\n">>)}

OfferUrl == <<"https", ":", "/", "/", "h", "/", "p">>

DestVals ==
    {PyStr(OfferUrl),
     PyStr(<<"HTTP", ":", "/", "/", "h">>),
     PyStr(<<" ", "http", ":", "/", "/", "h", "?", "q">>),
     PyStr(<<"http", ":", "/", "/", "/", "p">>),
     PyStr(<<"ftp", ":", "/", "/", "h">>),
     PyStr(<<"/", "/", "h">>),
     PyStr(<<"http", ":", "/", "/", "[", "h">>),
     PyStr(<<>>), PyNone, PyInt(5)}

LenderVals ==
    {PyStr(PayMe), PyStr(<<"x">>), PyStr(<<" ">>), PyStr(<<>>), PyNone, PyInt(5)}

MkRow(d, l) == [NullRow EXCEPT !.destination_url = d, !.lender = l]

Rows ==
    {MkRow(d, l) : d \in DestVals, l \in LenderVals}
    \cup {[NullRow EXCEPT !.url = PyStr(OfferUrl), !.lender = PyStr(PayMe),
                          !.msisdn = PyStr(<<"m">>), !.campaign = PyStr(<<"c">>)],
          [NullRow EXCEPT !.destination_url = PyStr(OfferUrl), !.partner = PyStr(PayMe)],
          [NullRow EXCEPT !.destination_url = PyStr(OfferUrl), !.partner = PyStr(<<>>)]}

Vals ==
    {PyNone, PyInt(0), PyInt(1), PyStr(<<>>), PyStr(<<"x">>),
     PyList(0), PyList(1), PyDict(0)}

Elems == {RowElem(r) : r \in Rows} \cup {ValElem(v) : v \in Vals}

LaterElems == {RowElem(MkRow(PyStr(OfferUrl), PyStr(PayMe))), ValElem(PyInt(1))}

FirstElems ==
    {RowElem(MkRow(PyStr(OfferUrl), PyStr(PayMe))),
     RowElem(MkRow(PyStr(<<"ftp", ":", "/", "/", "h">>), PyStr(PayMe))),
     ValElem(PyInt(0))}

ItemLists ==
    {<<>>} \cup {<<e>> : e \in Elems} \cup {<<e, f>> : e \in FirstElems, f \in LaterElems}

Payloads ==
    {ListPayload(env, items) : env \in BOOLEAN, items \in ItemLists}
    \cup {OnePayload(env, e) : env \in BOOLEAN, e \in Elems}

Bodies == {EmptyBody, NotJsonBody} \cup {JsonBody(p) : p \in Payloads}

Docs ==
    {CfgDict(2, PyStr(<<"Check your PayMe offer">>), PyNone,
             PyStr(<<"https://cdn/payme.jpg">>), PyNone),
     CfgDict(4, PyStr(<<"T">>), PyStr(<<"D">>), PyStr(<<"I">>), PyStr(<<"C">>)),
     CfgDict(4, PyStr(<<>>), PyStr(<<>>), PyStr(<<>>), PyStr(<<>>)),
     CfgDict(1, PyNone, PyNone, PyNone, PyNone),
     CfgDict(0, PyNone, PyNone, PyNone, PyNone),
     CfgNone, CfgOther("list", 1), CfgOther("str", 1)}

FileStates == {FileMissing, FileMalformed} \cup {FileOk(d) : d \in Docs}

DiskInits == {[k \in {PayMeKey} |-> f] : f \in FileStates}

Backoffs == {25, 35}

-----------------------------------------------------------------------------
(* Callers of get_redirect_preview that run concurrently.  Each has its    *)
(* row in hand (line 299) and goes through _load_lender_json step by step: *)
(* get under the lock, file read without it, set under the lock.           *)

Threads == 1..NumThreads

IdleThread ==
    [pc |-> "idle", name |-> <<>>, cfg |-> CfgNone, ret |-> Pending,
     dropped |-> FALSE, inserted |-> FALSE]

HandlerTokens == {<<"a">>}

\* config.py, line 23: the default of PUBLIC_BASE_URL, and another setting
DefaultPublicBase == <<"https://r.duitai.in">>
PublicBases == {DefaultPublicBase, <<"https://links.example">>}

\* no row for the token
NoRemoteRow == [has |-> FALSE, destination_url |-> <<>>, lender |-> <<>>]

\* nothing under the key
NoCached ==
    [has |-> FALSE, target_url |-> <<>>, canonical_url |-> <<>>,
     image_url |-> <<>>, ts |-> 0]

\* a thread of the worker with no request in hand
IdleReq ==
    [pc |-> "idle", token |-> <<>>, target_url |-> <<>>, canonical_url |-> <<>>,
     image_url |-> <<>>, hit |-> FALSE, looked |-> FALSE, found |-> FALSE,
     status |-> 0, origin |-> <<>>]

NormIdle ==
    /\ raw = <<>>
    /\ keys = <<>>

HandlerIdle ==
    /\ req = [t \in Threads |-> IdleReq]
    /\ previewCache = [tk \in HandlerTokens |-> NoCached]
    /\ lenderJsonCache = NoCached
    /\ remote = [tk \in HandlerTokens |-> NoRemoteRow]
    /\ maxReqs = 0
    /\ publicBase = DefaultPublicBase

ExtIdle ==
    /\ th = [t \in Threads |-> IdleThread]
    /\ lock = 0
    /\ recent = <<>>
    /\ maxLoads = 0
    /\ maxTime = 0
    /\ NormIdle
    /\ HandlerIdle

-----------------------------------------------------------------------------
(* The resolver: one call of get_redirect_preview *)

Init ==
    /\ pc = "idle"
    /\ retries \in -1..MaxRetries
    /\ backoff \in Backoffs
    /\ dabBase = DAB_BASE_URL
    /\ disk \in DiskInits
    /\ token = PyNone
    /\ tok = <<>>
    /\ url = <<>>
    /\ attempt = 0
    /\ calls = 0
    /\ sleeps = <<>>
    /\ last = NoOutcome
    /\ body = EmptyBody
    /\ row = NoRow
    /\ store = <<>>
    /\ now = 0
    /\ cacheGets = 0
    /\ cacheSets = 0
    /\ loads = 0
    /\ result = Pending
    /\ ExtIdle

\* get_redirect_preview up to the call of _dab_lookup
Call(t) ==
    /\ pc = "idle"
    /\ token' = t
    /\ IF TokenInvalid(t)
       THEN /\ pc' = "done"
            /\ result' = ReturnedNone
            /\ UNCHANGED <<tok, url>>
       ELSE /\ pc' = "http"
            /\ tok' = Strip(t.s)
            /\ url' = _build_dab_url_for_token(dabBase, DAB_REDIRECTS_PATH, Strip(t.s))
            /\ UNCHANGED result
    /\ UNCHANGED <<retries, backoff, dabBase, disk, attempt, calls, sleeps, last,
                   body, row, store, now, cacheGets, cacheSets, loads>>
    /\ UNCHANGED extVars

\* one turn of the loop of _http_get_with_retries and, when it returns,
\* the rest of _dab_lookup and the `if not row` of get_redirect_preview
HttpAttempt(kind, status, b) ==
    /\ pc = "http"
    /\ calls' = calls + 1
    /\ last' = [kind |-> kind, status |-> status]
    /\ LET class == OutcomeClass(kind, status)
           r == _dab_lookup(b)
       IN  CASE class = "ok" ->
                  /\ body' = b
                  /\ row' = r
                  /\ pc' = IF r.st = "row" THEN "config" ELSE "done"
                  /\ result' = CASE r.st = "row" -> result
                                 [] r.st = "raise" -> Raised
                                 [] OTHER -> ReturnedNone
                  /\ UNCHANGED <<attempt, sleeps>>
             [] class = "client" ->
                  /\ pc' = "done"
                  /\ result' = ReturnedNone
                  /\ UNCHANGED <<attempt, sleeps, body, row>>
             [] OTHER ->
                  IF Exhausted(attempt, retries)
                  THEN /\ pc' = "done"
                       /\ result' = ReturnedNone
                       /\ UNCHANGED <<attempt, sleeps, body, row>>
                  ELSE /\ sleeps' = Append(sleeps, SleepTime(backoff, attempt))
                       /\ attempt' = attempt + 1
                       /\ UNCHANGED <<pc, result, body, row>>
    /\ UNCHANGED <<retries, backoff, dabBase, disk, token, tok, url, store, now,
                   cacheGets, cacheSets, loads>>
    /\ UNCHANGED extVars

\* get_redirect_preview from _load_lender_json on; a lender that is not a
\* string makes _normalize_lender raise AttributeError
ConfigLookup ==
    /\ pc = "config"
    /\ pc' = "done"
    /\ IF row.lender.t # "str"
       THEN /\ result' = Raised
            /\ UNCHANGED <<store, cacheGets, cacheSets, loads>>
       ELSE LET l == _load_lender_json(store, disk, row.lender.s, now)
            IN  /\ store' = l.store
                /\ cacheGets' = cacheGets + 1
                /\ cacheSets' = cacheSets + l.sets
                /\ loads' = loads + l.opened
                /\ result' = BuildPreview(tok, row, l.cfg)
    /\ UNCHANGED <<retries, backoff, dabBase, disk, token, tok, url, attempt, calls,
                   sleeps, last, body, row, now>>
    /\ UNCHANGED extVars

Next ==
    \/ \E t \in Tokens : Call(t)
    \/ \E b \in Bodies : HttpAttempt("resp", 200, b)
    \/ \E s \in RespStatuses : HttpAttempt("resp", s, EmptyBody)
    \/ \E c \in ErrorCodes : HttpAttempt("httperror", c, EmptyBody)
    \/ HttpAttempt("urlerror", 0, EmptyBody)
    \/ HttpAttempt("exception", 0, EmptyBody)
    \/ ConfigLookup

Spec == Init /\ [][Next]_vars

\* A call that has begun goes on: urlopen comes back within its timeout,
\* time.sleep ends, and the thread runs the code after them.
FairCall ==
    /\ WF_vars(\/ \E b \in Bodies : HttpAttempt("resp", 200, b)
               \/ \E s \in RespStatuses : HttpAttempt("resp", s, EmptyBody)
               \/ \E c \in ErrorCodes : HttpAttempt("httperror", c, EmptyBody)
               \/ HttpAttempt("urlerror", 0, EmptyBody)
               \/ HttpAttempt("exception", 0, EmptyBody))
    /\ WF_vars(ConfigLookup)

\* the configured backoff, and a lender file that is missing or sound
InitFair ==
    /\ Init
    /\ backoff = DAB_BACKOFF_FACTOR
    /\ disk[PayMeKey].st \in {"missing", "ok"}
    /\ disk[PayMeKey].doc.n \in {0, 2}

SpecFair == InitFair /\ [][Next]_vars /\ FairCall

-----------------------------------------------------------------------------
(* A call made by a warm worker: the cache holds entries of earlier calls,  *)
(* some of them older than the TTL.                                        *)

WarmDoc == CfgDict(1, PyStr(<<"T">>), PyNone, PyNone, PyNone)

WarmStores ==
    {<<[key |-> <<"x">>, data |-> WarmDoc, ts |-> 0],
       [key |-> PayMeKey, data |-> WarmDoc, ts |-> 0]>>,
     <<[key |-> PayMeKey, data |-> WarmDoc, ts |-> 0],
       [key |-> <<"x">>, data |-> WarmDoc, ts |-> 1]>>,
     <<[key |-> <<"x">>, data |-> WarmDoc, ts |-> 1]>>}

InitWarm ==
    /\ pc = "idle"
    /\ retries \in {0, 1}
    /\ backoff = DAB_BACKOFF_FACTOR
    /\ dabBase = DAB_BASE_URL
    /\ disk \in {[k \in {PayMeKey} |-> f] : f \in {FileMissing, FileOk(WarmDoc)}}
    /\ token = PyNone
    /\ tok = <<>>
    /\ url = <<>>
    /\ attempt = 0
    /\ calls = 0
    /\ sleeps = <<>>
    /\ last = NoOutcome
    /\ body = EmptyBody
    /\ row = NoRow
    /\ store \in WarmStores
    /\ now \in {1, LENDER_CACHE_TTL + 1}
    /\ cacheGets = 0
    /\ cacheSets = 0
    /\ loads = 0
    /\ result = Pending
    /\ ExtIdle

SpecWarm == InitWarm /\ [][Next]_vars

-----------------------------------------------------------------------------
(* Request construction on its own: _dab_lookup's first line, for every    *)
(* token get_redirect_preview can pass (stripped, non-empty) and every     *)
(* configured base URL                                                     *)

TokenAtoms == {"a", " ", "'", "/", "&", "%"}

UrlTokens ==
    {s \in UNION {[1..n -> TokenAtoms] : n \in 1..MaxTokenLen} : Strip(s) = s}

DabBaseUrls == {DAB_BASE_URL, DAB_BASE_URL \o <<"/">>, <<"https://duit-dab-api">>}

InitUrl ==
    /\ pc = "url"
    /\ retries = DAB_RETRIES
    /\ backoff = DAB_BACKOFF_FACTOR
    /\ dabBase \in DabBaseUrls
    /\ disk \in {[k \in {PayMeKey} |-> FileMissing]}
    /\ token \in {PyStr(s) : s \in UrlTokens}
    /\ tok = <<>>
    /\ url = <<>>
    /\ attempt = 0
    /\ calls = 0
    /\ sleeps = <<>>
    /\ last = NoOutcome
    /\ body = EmptyBody
    /\ row = NoRow
    /\ store = <<>>
    /\ now = 0
    /\ cacheGets = 0
    /\ cacheSets = 0
    /\ loads = 0
    /\ result = Pending
    /\ ExtIdle

BuildUrl ==
    /\ pc = "url"
    /\ pc' = "url_done"
    /\ tok' = token.s
    /\ url' = _build_dab_url_for_token(dabBase, DAB_REDIRECTS_PATH, token.s)
    /\ UNCHANGED <<retries, backoff, dabBase, disk, token, attempt, calls, sleeps,
                   last, body, row, store, now, cacheGets, cacheSets, loads, result>>
    /\ UNCHANGED extVars

NextUrl == BuildUrl

SpecUrl == InitUrl /\ [][NextUrl]_vars

-----------------------------------------------------------------------------
(* Concurrent config lookups *)

LoadNames == {PayMe, <<"x">>, <<"y">>, <<"z">>}

LoadDisk ==
    (PayMeKey :> FileOk(CfgDict(2, PyStr(<<"Check your PayMe offer">>), PyNone,
                                PyStr(<<"https://cdn/payme.jpg">>), PyNone)))
    @@ (<<"x">> :> FileOk(CfgDict(4, PyStr(<<"T">>), PyStr(<<"D">>), PyStr(<<"I">>),
                                  PyStr(<<"C">>))))
    @@ (<<"y">> :> FileOk(CfgDict(1, PyNone, PyNone, PyNone, PyNone)))

\* the row a caller holds: a valid destination and the lender name
LoadRow(name) ==
    [st |-> "row", destination_url |-> PyStr(OfferUrl), lender |-> PyStr(name),
     mobile |-> PyNone, campaign_id |-> PyNone]

LoadToken == <<"a">>

RECURSIVE SeqWithout(_, _)
SeqWithout(s, k) ==
    IF s = <<>> THEN <<>>
    ELSE IF Head(s) = k THEN SeqWithout(Tail(s), k)
    ELSE <<Head(s)>> \o SeqWithout(Tail(s), k)

Touch(r, k) == Append(SeqWithout(r, k), k)

\* lookups begun so far
Started == cacheGets + Cardinality({u \in Threads : th[u].pc \in {"get", "in_get"}})

\* a loader that hands a failed read to the cache as an empty document
FileLoadNullOnError(f, ioerr) ==
    IF f.st = "missing" THEN [st |-> "missing", doc |-> CfgNone]
    ELSE IF f.st = "malformed" \/ ioerr THEN [st |-> "ok", doc |-> CfgNone]
    ELSE [st |-> "ok", doc |-> f.doc]

\* _load_lender_json, lines 147-156: path.exists(), open and json.load
FileLoad(f, ioerr) ==
    IF f.st = "missing" THEN [st |-> "missing", doc |-> CfgNone]
    ELSE IF f.st = "malformed" \/ ioerr THEN [st |-> "fail", doc |-> CfgNone]
    ELSE [st |-> "ok", doc |-> f.doc]

\* the resolver after import with no call made: configuration read,
\* _lender_cache empty
Quiet ==
    /\ retries = DAB_RETRIES
    /\ backoff = DAB_BACKOFF_FACTOR
    /\ dabBase = DAB_BASE_URL
    /\ token = PyStr(LoadToken)
    /\ tok = LoadToken
    /\ url = <<>>
    /\ attempt = 0
    /\ calls = 0
    /\ sleeps = <<>>
    /\ last = NoOutcome
    /\ body = EmptyBody
    /\ row = NoRow
    /\ store = <<>>
    /\ now = 0
    /\ cacheGets = 0
    /\ cacheSets = 0
    /\ loads = 0
    /\ result = Pending

\* the process after import, no caller inside get_redirect_preview
LoadStart ==
    /\ pc = "load"
    /\ Quiet
    /\ disk = LoadDisk
    /\ th = [t \in Threads |-> IdleThread]
    /\ lock = 0
    /\ recent = <<>>
    /\ NormIdle
    /\ HandlerIdle

InitLoad ==
    /\ LoadStart
    /\ maxLoads = MaxLoads
    /\ maxTime = MaxTime

LoadFrame ==
    UNCHANGED <<pc, retries, backoff, dabBase, disk, token, tok, url, attempt,
                calls, sleeps, last, body, row, result, maxLoads, maxTime,
                normVars, handlerVars>>

\* get_redirect_preview, lines 299-304: the call of _load_lender_json
BeginLookup(t, name) ==
    /\ th[t].pc = "idle"
    /\ Started < maxLoads
    /\ th' = [th EXCEPT ![t] = [IdleThread EXCEPT !.pc = "get", !.name = name]]
    /\ UNCHANGED <<store, now, cacheGets, cacheSets, loads, lock, recent>>
    /\ LoadFrame

\* `with self.lock:` of LruTtlCache.get and LruTtlCache.set
AcquireLock(t) ==
    /\ th[t].pc \in {"get", "set"}
    /\ lock = 0
    /\ lock' = t
    /\ th' = [th EXCEPT ![t].pc = IF th[t].pc = "get" THEN "in_get" ELSE "in_set"]
    /\ UNCHANGED <<store, now, cacheGets, cacheSets, loads, recent>>
    /\ LoadFrame

\* a get that leaves its `with` block without giving the lock back
CacheGetKeepsLock(t) ==
    /\ th[t].pc = "in_get"
    /\ lock = t
    /\ LET key == _normalize_lender(th[t].name)
           g == LruGet(store, key, now)
       IN  /\ store' = g.store
           /\ recent' = IF g.found THEN Touch(recent, key) ELSE recent
           /\ th' = [th EXCEPT ![t] =
                       IF g.found /\ g.data.t # "none"
                       THEN [@ EXCEPT !.pc = "returned",
                                      !.ret = BuildPreview(LoadToken, LoadRow(th[t].name), g.data)]
                       ELSE [@ EXCEPT !.pc = "read",
                                      !.dropped = Len(g.store) < Len(store)]]
           /\ lock' = IF g.found /\ g.data.t # "none" THEN 0 ELSE t
    /\ cacheGets' = cacheGets + 1
    /\ UNCHANGED <<now, cacheSets, loads>>
    /\ LoadFrame

\* _lender_cache.get(normalized) and `if cached is not None: return cached`
CacheGet(t) ==
    /\ th[t].pc = "in_get"
    /\ lock = t
    /\ LET key == _normalize_lender(th[t].name)
           g == LruGet(store, key, now)
       IN  /\ store' = g.store
           /\ recent' = IF g.found THEN Touch(recent, key) ELSE recent
           /\ th' = [th EXCEPT ![t] =
                       IF g.found /\ g.data.t # "none"
                       THEN [@ EXCEPT !.pc = "returned",
                                      !.ret = BuildPreview(LoadToken, LoadRow(th[t].name), g.data)]
                       ELSE [@ EXCEPT !.pc = "read",
                                      !.dropped = Len(g.store) < Len(store)]]
           /\ lock' = 0
    /\ cacheGets' = cacheGets + 1
    /\ UNCHANGED <<now, cacheSets, loads>>
    /\ LoadFrame

\* _load_lender_json, lines 144-156: the file is read outside the lock; an
\* existing file may fail to open or parse (ioerr)
ReadFile(t, ioerr) ==
    /\ th[t].pc = "read"
    /\ LET key == _normalize_lender(th[t].name)
           f == IF key \in DOMAIN disk THEN disk[key] ELSE FileMissing
           out == FileLoad(f, ioerr)
       IN  /\ loads' = IF out.st = "missing" THEN loads ELSE loads + 1
           /\ th' = [th EXCEPT ![t] =
                       IF out.st = "ok"
                       THEN [@ EXCEPT !.pc = "set", !.cfg = out.doc]
                       ELSE [@ EXCEPT !.pc = "returned",
                                      !.ret = BuildPreview(LoadToken, LoadRow(th[t].name), CfgNone)]]
    /\ UNCHANGED <<store, now, cacheGets, cacheSets, lock, recent>>
    /\ LoadFrame

\* _lender_cache.set(normalized, data), `return data` and the merge
CacheSet(t) ==
    /\ th[t].pc = "in_set"
    /\ lock = t
    /\ LET key == _normalize_lender(th[t].name)
       IN  /\ store' = LruSet(store, key, th[t].cfg, now)
           /\ recent' = Touch(recent, key)
    /\ lock' = 0
    /\ cacheSets' = cacheSets + 1
    /\ th' = [th EXCEPT ![t] =
                [@ EXCEPT !.pc = "returned", !.inserted = TRUE,
                          !.ret = BuildPreview(LoadToken, LoadRow(th[t].name), th[t].cfg)]]
    /\ UNCHANGED <<now, cacheGets, loads>>
    /\ LoadFrame

\* the caller takes its preview
Finish(t) ==
    /\ th[t].pc = "returned"
    /\ th' = [th EXCEPT ![t] = IdleThread]
    /\ UNCHANGED <<store, now, cacheGets, cacheSets, loads, lock, recent>>
    /\ LoadFrame

\* time.time() moves on
Tick ==
    /\ now < maxTime
    /\ now' = now + 1
    /\ UNCHANGED <<store, cacheGets, cacheSets, loads, th, lock, recent>>
    /\ LoadFrame

NextLoad ==
    \/ \E t \in Threads : \E name \in LoadNames : BeginLookup(t, name)
    \/ \E t \in Threads : AcquireLock(t)
    \/ \E t \in Threads : CacheGet(t)
    \/ \E t \in Threads : \E ioerr \in BOOLEAN : ReadFile(t, ioerr)
    \/ \E t \in Threads : CacheSet(t)
    \/ \E t \in Threads : Finish(t)
    \/ Tick

SpecLoad == InitLoad /\ [][NextLoad]_vars

\* The same callers with the clock standing still, each caller that can take
\* a step taking it, and no caller waiting for the lock passed over forever.
InitLock ==
    /\ LoadStart
    /\ maxLoads = MaxLockLoads
    /\ maxTime = 0

NextLock ==
    \/ \E t \in Threads : \E name \in LoadNames : BeginLookup(t, name)
    \/ \E t \in Threads : AcquireLock(t)
    \/ \E t \in Threads : CacheGet(t)
    \/ \E t \in Threads : \E ioerr \in BOOLEAN : ReadFile(t, ioerr)
    \/ \E t \in Threads : CacheSet(t)
    \/ \E t \in Threads : Finish(t)

FairLock ==
    \A t \in Threads :
        /\ WF_vars(CacheGet(t))
        /\ WF_vars(\E ioerr \in BOOLEAN : ReadFile(t, ioerr))
        /\ WF_vars(CacheSet(t))
        /\ SF_vars(AcquireLock(t))

SpecLock == InitLock /\ [][NextLock]_vars /\ FairLock

-----------------------------------------------------------------------------
(* Partner key normalization: _normalize_lender applied to two raw names *)

NameAtoms == {"P", "p", " ", "\t"}

NormNames == UNION {[1..n -> NameAtoms] : n \in 1..MaxNameLen}

InitNorm ==
    /\ pc = "norm"
    /\ Quiet
    /\ disk = LoadDisk
    /\ th = [t \in Threads |-> IdleThread]
    /\ lock = 0
    /\ recent = <<>>
    /\ maxLoads = 0
    /\ maxTime = 0
    /\ HandlerIdle
    /\ raw \in NormNames \X NormNames
    /\ keys = <<>>

\* _load_lender_json, line 138, for each name, and again for each key
Normalize ==
    /\ pc = "norm"
    /\ pc' = "norm_done"
    /\ keys' = <<_normalize_lender(raw[1]), _normalize_lender(raw[2]),
                 _normalize_lender(_normalize_lender(raw[1])),
                 _normalize_lender(_normalize_lender(raw[2]))>>
    /\ UNCHANGED <<retries, backoff, dabBase, disk, token, tok, url, attempt, calls,
                   sleeps, last, body, row, store, now, cacheGets, cacheSets,
                   loads, result, th, lock, recent, maxLoads, maxTime, raw,
                   handlerVars>>

NextNorm == Normalize

SpecNorm == InitNorm /\ [][NextNorm]_vars

-----------------------------------------------------------------------------
(* The preview handler, purview_preview.main, serving requests on the      *)
(* threads of one worker.  Its two caches are module dictionaries; the     *)
(* TTLs are scaled down (the source defaults are 300 and 3600 seconds).    *)

PREVIEW_CACHE_TTL == 1
DAB_CACHE_TTL == 2

MovedUrl == <<"https", ":", "/", "/", "h", "/", "q">>

RemoteRows ==
    {NoRemoteRow,
     [has |-> TRUE, destination_url |-> OfferUrl, lender |-> PayMe],
     [has |-> TRUE, destination_url |-> MovedUrl, lender |-> PayMe]}

FallbackKey == <<"fallback">>
FallbackJson == <<"FALLBACK_JSON">>
FallbackDoc ==
    CfgDict(2, PyStr(<<"Your offer">>), PyNone, PyStr(<<"https://cdn/fallback.jpg">>),
            PyNone)

HandlerDisks ==
    {(FallbackKey :> FileMissing) @@ (FallbackJson :> FileMissing),
     (FallbackKey :> FileMissing) @@ (FallbackJson :> FileOk(FallbackDoc)),
     (FallbackKey :> FileMalformed) @@ (FallbackJson :> FileOk(FallbackDoc))}

Punctuation == {".", ",", "&"}

\* purview_preview._normalize_lender
PreviewNormalizeLender(name) ==
    LET NotPunctuation(c) == c \notin Punctuation
        s == CollapseWhitespace(SelectSeq(Lower(Strip(name)), NotPunctuation))
        u == [i \in 1..Len(s) |-> IF s[i] = "-" THEN "_" ELSE s[i]]
    IN  IF u = <<>> THEN <<"unknown">> ELSE u

\* _build_image_endpoint
ImageEndpoint(lender_normalized) ==
    <<"https://host", "/api/purview-image/">> \o lender_normalized

\* _load_lender_json_from_repo: the lender file, else the generic fallback
LoadLenderJsonFromRepo(files, normalized) ==
    IF files[normalized].st = "ok" THEN files[normalized].doc
    ELSE IF files[FallbackJson].st = "ok" THEN files[FallbackJson].doc
    ELSE CfgNone

\* _get_lender_json("fallback"): the document and the cache afterwards
GetLenderJson(cache, files, time) ==
    IF cache.has /\ time - cache.ts < DAB_CACHE_TTL
    THEN [image_url |-> cache.image_url, found |-> TRUE, cache |-> cache]
    ELSE LET data == LoadLenderJsonFromRepo(files, FallbackKey)
         IN  IF CfgTruthy(data)
             THEN [image_url |-> data.image_url.s, found |-> TRUE,
                   cache |-> [has |-> TRUE, target_url |-> <<>>,
                              canonical_url |-> <<>>,
                              image_url |-> data.image_url.s, ts |-> time]]
             ELSE [image_url |-> <<>>, found |-> FALSE, cache |-> NoCached]

InitHandler ==
    /\ pc = "handler"
    /\ Quiet
    /\ disk \in HandlerDisks
    /\ th = [t \in Threads |-> IdleThread]
    /\ lock = 0
    /\ recent = <<>>
    /\ maxLoads = 0
    /\ maxTime = MaxTime
    /\ NormIdle
    /\ req = [t \in Threads |-> IdleReq]
    /\ previewCache = [tk \in HandlerTokens |-> NoCached]
    /\ lenderJsonCache = NoCached
    /\ remote \in [HandlerTokens -> RemoteRows \ {NoRemoteRow}]
    /\ maxReqs = MaxRequests
    /\ publicBase \in PublicBases

HandlerFrame ==
    UNCHANGED <<resolverVars, th, lock, recent, maxLoads, maxTime, normVars,
                publicBase>>

\* main, lines 179-193: a request with a token that is no probe
Receive(t, tk) ==
    /\ req[t].pc = "idle"
    /\ maxReqs > 0
    /\ maxReqs' = maxReqs - 1
    /\ req' = [req EXCEPT ![t] = [IdleReq EXCEPT !.pc = "cached", !.token = tk]]
    /\ UNCHANGED <<previewCache, lenderJsonCache, remote>>
    /\ HandlerFrame

\* _get_cached_preview up to its return or its del, and main, lines 196-204
GetCachedPreview(t) ==
    /\ req[t].pc = "cached"
    /\ LET entry == previewCache[req[t].token]
       IN  req' = [req EXCEPT ![t] =
                     IF ~entry.has THEN [@ EXCEPT !.pc = "resolve"]
                     ELSE IF now - entry.ts < PREVIEW_CACHE_TTL
                     THEN [@ EXCEPT !.pc = "responded", !.hit = TRUE, !.status = 200,
                                    !.target_url = entry.target_url,
                                    !.canonical_url = entry.canonical_url,
                                    !.image_url = entry.image_url]
                     ELSE [@ EXCEPT !.pc = "del"]]
    /\ UNCHANGED <<previewCache, lenderJsonCache, remote, maxReqs>>
    /\ HandlerFrame

\* _get_cached_preview, line 124: del _preview_cache[token]; a KeyError
\* leaves main
DelCachedPreview(t) ==
    /\ req[t].pc = "del"
    /\ IF previewCache[req[t].token].has
       THEN /\ previewCache' = [previewCache EXCEPT ![req[t].token] = NoCached]
            /\ req' = [req EXCEPT ![t].pc = "resolve"]
       ELSE /\ previewCache' = previewCache
            /\ req' = [req EXCEPT ![t] = [@ EXCEPT !.pc = "responded", !.status = 500]]
    /\ UNCHANGED <<lenderJsonCache, remote, maxReqs>>
    /\ HandlerFrame

\* main, line 266: the URL built from the token when the preview has no
\* target_url
TokenUrl(tk) == <<"https://r.duitai.in", "/p/">> \o tk

\* main, lines 206-267: get_redirect_preview(token) against the remote rows
\* (up: the lookup came back), then the image endpoint of the lender or the
\* fallback document, and the canonical URL
ResolvePreview(t, up) ==
    /\ req[t].pc = "resolve"
    /\ LET tk == req[t].token
           r == IF up THEN remote[tk] ELSE NoRemoteRow
           g == GetLenderJson(lenderJsonCache, disk, now)
       IN  IF r.has
           THEN /\ req' = [req EXCEPT ![t] =
                             [@ EXCEPT !.pc = "cache", !.looked = TRUE,
                                       !.found = TRUE,
                                       !.target_url = r.destination_url,
                                       !.canonical_url = r.destination_url,
                                       !.image_url =
                                           ImageEndpoint(PreviewNormalizeLender(r.lender))]]
                /\ lenderJsonCache' = lenderJsonCache
           ELSE /\ req' = [req EXCEPT ![t] =
                             [@ EXCEPT !.pc = "cache", !.looked = TRUE,
                                       !.canonical_url = TokenUrl(tk),
                                       !.target_url = TokenUrl(tk),
                                       !.image_url = g.image_url]]
                /\ lenderJsonCache' = g.cache
    /\ UNCHANGED <<previewCache, remote, maxReqs>>
    /\ HandlerFrame

\* _cache_preview(token, preview) and the response, lines 270-279
CachePreview(t) ==
    /\ req[t].pc = "cache"
    /\ previewCache' = [previewCache EXCEPT ![req[t].token] =
                          [has |-> TRUE, target_url |-> req[t].target_url,
                           canonical_url |-> req[t].canonical_url,
                           image_url |-> req[t].image_url, ts |-> now]]
    /\ req' = [req EXCEPT ![t] = [@ EXCEPT !.pc = "responded", !.status = 200]]
    /\ UNCHANGED <<lenderJsonCache, remote, maxReqs>>
    /\ HandlerFrame

\* the part of an image URL after /api/purview-image/
ImageSegment(image_url) == SubSeq(image_url, 3, Len(image_url))

\* the image URL is one written by _build_image_endpoint
AtImageEndpoint(image_url) ==
    Len(image_url) >= 2 /\ SubSeq(image_url, 1, 2) = ImageEndpoint(<<>>)

\* the row the DAB API holds under a token
RemoteRow(tk) == IF tk \in DOMAIN remote THEN remote[tk] ELSE NoRemoteRow

\* purview_image.main, lines 84-88: a client that was sent the page of
\* token tk requests the image URL of that page; the route puts the path
\* segment after /api/purview-image/ into `token`
ReceiveImage(t, tk) ==
    /\ req[t].pc = "idle"
    /\ maxReqs > 0
    /\ previewCache[tk].has
    /\ AtImageEndpoint(previewCache[tk].image_url)
    /\ maxReqs' = maxReqs - 1
    /\ req' = [req EXCEPT ![t] =
                 [IdleReq EXCEPT !.pc = "image", !.origin = tk,
                                 !.token = ImageSegment(previewCache[tk].image_url)]]
    /\ UNCHANGED <<previewCache, lenderJsonCache, remote>>
    /\ HandlerFrame

\* purview_image.main, lines 90-130: get_redirect_preview(token) on the
\* path segment; no record is 404 (up: the lookup came back)
ServeImage(t, up) ==
    /\ req[t].pc = "image"
    /\ LET r == IF up THEN RemoteRow(req[t].token) ELSE NoRemoteRow
       IN  req' = [req EXCEPT ![t] =
                     [@ EXCEPT !.pc = "responded", !.looked = TRUE,
                               !.found = r.has,
                               !.target_url = r.destination_url,
                               !.status = IF r.has THEN 200 ELSE 404]]
    /\ UNCHANGED <<previewCache, lenderJsonCache, remote, maxReqs>>
    /\ HandlerFrame

\* the response is sent
Respond(t) ==
    /\ req[t].pc = "responded"
    /\ req' = [req EXCEPT ![t] = IdleReq]
    /\ UNCHANGED <<previewCache, lenderJsonCache, remote, maxReqs>>
    /\ HandlerFrame

\* the row of a token is changed or revoked at the DAB API
RemoteChange(tk, r) ==
    /\ remote[tk] # r
    /\ remote' = [remote EXCEPT ![tk] = r]
    /\ UNCHANGED <<req, previewCache, lenderJsonCache, maxReqs>>
    /\ HandlerFrame

NextHandler ==
    \/ \E t \in Threads : \E tk \in HandlerTokens : Receive(t, tk)
    \/ \E t \in Threads : GetCachedPreview(t)
    \/ \E t \in Threads : DelCachedPreview(t)
    \/ \E t \in Threads : \E up \in BOOLEAN : ResolvePreview(t, up)
    \/ \E t \in Threads : CachePreview(t)
    \/ \E t \in Threads : Respond(t)
    \/ \E t \in Threads : \E tk \in HandlerTokens : ReceiveImage(t, tk)
    \/ \E t \in Threads : \E up \in BOOLEAN : ServeImage(t, up)
    \/ \E tk \in HandlerTokens : \E r \in RemoteRows : RemoteChange(tk, r)
    \/ Tick

SpecHandler == InitHandler /\ [][NextHandler]_vars

-----------------------------------------------------------------------------
(* Properties *)

\* the row the remote lookup considers: the first element of the decoded body
Candidate == FirstRow(body.payload)

\* a body was received and its candidate is a JSON object
HasCandidate == body.kind = "json" /\ RowsTruthy(body.payload) /\ Candidate.isRow

\* scheme http or https and a non-empty authority, read off the text:
\* (blanks) http(s) : / / x ... with x not one of / ? #
HttpAbsolute(v) ==
    /\ v.t = "str"
    /\ LET u == LStrip(v.s)
       IN  /\ Len(u) >= 5
           /\ u[1] \in {"http", "https", "HTTP"}
           /\ u[2] = ":" /\ u[3] = "/" /\ u[4] = "/"
           /\ u[5] \notin {"/", "?", "#"}
           /\ \A i \in 1..Len(u) : u[i] \notin {"[", "]"}

\* a transport-level failure or a 5xx response
ServerFailure(o) ==
    \/ o.kind = "urlerror"
    \/ o.kind \in {"resp", "httperror"} /\ 500 <= o.status /\ o.status <= 599

\* a 4xx response
ClientError(o) ==
    o.kind \in {"resp", "httperror"} /\ 400 <= o.status /\ o.status <= 499

Succeeded(o) == o.kind = "resp" /\ o.status = 200

RECURSIVE SumSeq(_)
SumSeq(s) == IF s = <<>> THEN 0 ELSE Head(s) + SumSeq(Tail(s))

\* C1: get_redirect_preview returns a record or None for every response
\* body and every config document; no exception reaches the caller.
C1_NoExceptionEscapes == result.st # "raised"

\* C2: with a valid destination row and a present partner config (a
\* non-empty JSON object on disk), the record has target_url = canonical_url
\* = the row's destination and its metadata carries fallback = false.
C2_ConfigFound ==
    (/\ pc = "done"
     /\ row.st = "row"
     /\ row.lender = PyStr(PayMe)
     /\ disk[PayMeKey].st = "ok"
     /\ disk[PayMeKey].doc.t = "dict"
     /\ disk[PayMeKey].doc.n > 0)
    => /\ result.st = "record"
       /\ result.target_url = row.destination_url
       /\ result.canonical_url = row.destination_url
       /\ result.meta.fallback = "false"

\* C3: with a valid destination row (valid destination, partner a non-empty
\* string) and no loadable partner config (file missing or unreadable), a
\* record is still returned, with fallback = true, the default image and
\* colour, and target_url = canonical_url = the row's destination.
C3_ConfigMissing ==
    (/\ pc = "done"
     /\ HasCandidate
     /\ row.st = "row"
     /\ row.lender.t = "str"
     /\ LET key == _normalize_lender(row.lender.s)
        IN  key \notin DOMAIN disk \/ disk[key].st # "ok")
    => /\ result.st = "record"
       /\ result.meta.fallback = "true"
       /\ result.image_url = DEFAULT_OG_IMAGE_URL
       /\ result.theme_color = DEFAULT_THEME_COLOR
       /\ result.target_url = RowDestination(Candidate.row)
       /\ result.canonical_url = RowDestination(Candidate.row)
       /\ HttpAbsolute(result.target_url)

C3_Witness ==
    /\ pc = "done"
    /\ row.st = "row"
    /\ row.lender = PyStr(PayMe)
    /\ disk[PayMeKey].st = "malformed"
    /\ result.st = "record"
    /\ result.meta.fallback = "true"

\* the token is None, empty or made of whitespace only
BlankToken(t) == t.t = "none" \/ \A i \in 1..Len(t.s) : t.s[i] \in Whitespace

\* C4: a call with a None, empty or whitespace-only token returns None and
\* makes no remote lookup attempt and no config cache access.
C4_BlankTokenNoLookup ==
    (pc # "idle" /\ BlankToken(token))
    => /\ pc = "done"
       /\ result.st = "none"
       /\ calls = 0
       /\ cacheGets = 0
       /\ cacheSets = 0
       /\ loads = 0
       /\ store = <<>>

C4_Witness ==
    /\ pc = "done"
    /\ token = PyStr(<<"\t", " ">>)
    /\ result.st = "none"
    /\ calls = 0

\* C5: a row is accepted only if its destination has scheme http or https
\* with a non-empty authority and its partner field is non-empty: every
\* accepted row and every returned record has such a target and a non-empty
\* partner, and a candidate row violating either condition yields None.
C5_OnlyValidRowsAccepted ==
    /\ row.st = "row" => HttpAbsolute(row.destination_url) /\ Truthy(row.lender)
    /\ result.st = "record"
         => HttpAbsolute(result.target_url) /\ Truthy(result.meta.lender)
    /\ (/\ pc = "done"
        /\ HasCandidate
        /\ \/ ~HttpAbsolute(RowDestination(Candidate.row))
           \/ ~Truthy(PyOr(Candidate.row.lender, Candidate.row.partner)))
       => result.st = "none"

C5_Witness ==
    /\ pc = "done"
    /\ HasCandidate
    /\ Candidate.row.destination_url = PyStr(<<"http", ":", "/", "/", "/", "p">>)
    /\ Candidate.row.lender = PyStr(PayMe)
    /\ result.st = "none"

\* C6: a row with a valid destination whose partner value appears only
\* under the key `partner` is accepted and resolves to a record for that
\* partner.
C6_PartnerKeyAccepted ==
    (/\ pc = "done"
     /\ HasCandidate
     /\ HttpAbsolute(RowDestination(Candidate.row))
     /\ ~Truthy(Candidate.row.lender)
     /\ Candidate.row.partner.t = "str"
     /\ Truthy(Candidate.row.partner))
    => /\ result.st = "record"
       /\ result.meta.lender = Candidate.row.partner

\* C7: a transport failure or 5xx is retried until `retries` additional
\* attempts were made: while attempts remain the loop goes on, a lookup
\* that ends on such a failure has made exactly retries + 1 calls and gives
\* None, and a success on a later attempt ends the loop with that body.
C7_RetriedUntilExhausted ==
    /\ [](retries >= 0 =>
            /\ pc = "http" => calls = attempt /\ attempt <= retries
            /\ (pc = "done" /\ ServerFailure(last))
                 => calls = retries + 1 /\ result.st = "none"
            /\ Succeeded(last)
                 => /\ pc \in {"config", "done"}
                    /\ calls = attempt + 1
                    /\ row = _dab_lookup(body)
                    /\ pc = "done" /\ row.st = "row" /\ row.lender.t = "str"
                         /\ (disk[PayMeKey].st = "ok" => disk[PayMeKey].doc.t = "dict")
                         => result.st = "record")
    /\ [][(pc = "http" /\ calls' = calls + 1 /\ ServerFailure(last')
             /\ attempt < retries)
            => pc' = "http" /\ attempt' = attempt + 1]_vars

C7_Witness ==
    /\ retries = 2
    /\ calls = 3
    /\ Succeeded(last)
    /\ pc = "done"
    /\ result.st = "record"

\* C8: a 4xx response ends the lookup at once: no further attempt, no
\* backoff sleep after it, and the lookup result is absent.
C8_NoRetryOn4xx ==
    /\ [](ClientError(last) =>
            /\ pc = "done"
            /\ result.st = "none"
            /\ Len(sleeps) = calls - 1
            /\ (attempt = 0 => calls = 1 /\ sleeps = <<>>))
    /\ [][(calls' = calls + 1 /\ ClientError(last'))
            => pc' = "done" /\ sleeps' = sleeps /\ attempt' = attempt]_vars

C8_Witness ==
    /\ pc = "done"
    /\ retries = 2
    /\ last = [kind |-> "httperror", status |-> 404]
    /\ calls = 1
    /\ sleeps = <<>>
    /\ result.st = "none"

\* C9: the sleep after failed attempt k is base_backoff * 2^k; a lookup
\* that succeeds on its third attempt has slept 3 * base_backoff in all,
\* and no sleep follows the last attempt.
C9_ExponentialBackoff ==
    /\ \A k \in 1..Len(sleeps) : sleeps[k] = backoff * 2^(k - 1)
    /\ Len(sleeps) = attempt
    /\ pc = "http" => Len(sleeps) = calls
    /\ pc \in {"config", "done"} /\ calls > 0 => Len(sleeps) = calls - 1
    /\ Succeeded(last) /\ calls = 3 => SumSeq(sleeps) = backoff + 2 * backoff

C9_Witness ==
    /\ Succeeded(last)
    /\ calls = 3
    /\ backoff = 35
    /\ sleeps = <<35, 70>>

\* the filter as the claim has it: spaces become %20, the rest is unchanged
SpacesEncoded(s) == [i \in 1..Len(s) |-> IF s[i] = " " THEN "%20" ELSE s[i]]

\* what the built URL carries between "?$filter=" and "&$top=1"
UrlFilter(u) == SubSeq(u, FindFrom(u, {"?$filter="}, 1) + 1, Len(u) - 1)

\* C10: the filter of the lookup URL is token eq '<token>' with every space
\* percent-encoded as %20 and every other character passed through.
C10_OnlySpaceEncoded ==
    pc = "url_done" => UrlFilter(url) = SpacesEncoded(FilterValue(tok))

\* the configured base without a trailing slash
BaseNoSlash(b) == IF b # <<>> /\ b[Len(b)] = "/" THEN SubSeq(b, 1, Len(b) - 1) ELSE b

\* C11: the lookup URL begins with the configured base, path prefix
\* included (with or without a trailing slash), followed by "/" and the
\* redirects path.
C11_PrefixRetained ==
    pc = "url_done" =>
        LET b == BaseNoSlash(dabBase)
        IN  /\ Len(url) >= Len(b) + 2
            /\ SubSeq(url, 1, Len(b)) = b
            /\ url[Len(b) + 1] = "/"
            /\ url[Len(b) + 2] = "redirects"
            /\ url[Len(b) + 3] = "?$filter="

C11_Witness ==
    /\ pc = "url_done"
    /\ dabBase = <<"https://duit-dab-api", "/", "api", "/">>
    /\ SubSeq(url, 1, 5) = <<"https://duit-dab-api", "/", "api", "/", "redirects">>

\* C12: whenever the partner document loads (any JSON object, its optional
\* fields present, missing or empty), the record is merged field by field:
\* title or "Your {partner} loan preview is ready", description or "",
\* image_url or the default image, theme_color or the default colour, and
\* fallback is false.
C12_MergedFieldByField ==
    (/\ pc = "done"
     /\ row.st = "row"
     /\ row.lender = PyStr(PayMe)
     /\ disk[PayMeKey].st = "ok"
     /\ disk[PayMeKey].doc.t = "dict")
    => LET d == disk[PayMeKey].doc
       IN  /\ result.st = "record"
           /\ result.title =
                IF Truthy(d.title) THEN d.title
                ELSE PyStr(<<"Your ", "P", "a", "y", "M", "e", " loan preview is ready">>)
           /\ result.description = IF Truthy(d.description) THEN d.description ELSE PyStr(<<>>)
           /\ result.image_url = IF Truthy(d.image_url) THEN d.image_url ELSE DEFAULT_OG_IMAGE_URL
           /\ result.theme_color =
                IF Truthy(d.theme_color) THEN d.theme_color ELSE DEFAULT_THEME_COLOR
           /\ result.meta.fallback = "false"


StoreKeys(st) == [i \in 1..Len(st) |-> st[i].key]
KeySet(st) == {st[i].key : i \in 1..Len(st)}
InRecent(k) == \E i \in 1..Len(recent) : recent[i] = k

\* C13: whatever the callers and their interleaving, the cache never holds
\* more than max_size entries and never holds a key twice.
C13_BoundedDistinctKeys ==
    /\ Len(store) <= LENDER_CACHE_MAX
    /\ \A i, j \in 1..Len(store) : i # j => store[i].key # store[j].key

\* a third key was inserted into a full cache with no time elapsed, one key
\* is gone, a second caller is inside its own lookup
C13_Witness ==
    /\ now = 0
    /\ cacheSets > LENDER_CACHE_MAX
    /\ Len(store) = LENDER_CACHE_MAX
    /\ \E k \in LoadNames : InRecent(k) /\ k \notin KeySet(store)
    /\ \E t \in Threads : th[t].pc \in {"get", "read", "set"}


\* the keys of st in the order of their last use, least recent first
ByRecency(r, st) ==
    LET Held(k) == k \in KeySet(st) IN SelectSeq(r, Held)

\* C14: the store keeps its entries in the order of their last use, a use
\* being a read hit or a write, and a set on a full cache drops the entry
\* used least recently.
C14_LeastRecentlyUsedEvicted ==
    [][ /\ StoreKeys(store') = ByRecency(recent', store')
        /\ \A k \in KeySet(store) \ KeySet(store') :
              (cacheSets' > cacheSets) =>
                 /\ Len(store) = LENDER_CACHE_MAX
                 /\ k = Head(ByRecency(recent, store))
                 /\ KeySet(store') \ KeySet(store) # {} ]_vars

\* "x" was inserted, PayMe was then read from the cache, and the insert of
\* "y" dropped "x" and kept PayMe; no entry can have expired
C14_Witness ==
    /\ now = 0
    /\ cacheSets = LENDER_CACHE_MAX + 1
    /\ StoreKeys(store) = <<PayMeKey, <<"y">>>>
    /\ InRecent(<<"x">>)
    /\ \E t, u \in Threads :
          /\ th[t].pc = "returned" /\ th[t].name = PayMe /\ ~th[t].inserted
          /\ th[t].ret.meta.fallback = "absent"
          /\ th[u].pc = "returned" /\ th[u].name = <<"y">> /\ th[u].inserted


ThreadKey(t) == _normalize_lender(th[t].name)
Expired(st, key, time) ==
    LET i == StoreIndex(st, key, 1) IN i # 0 /\ time - st[i].ts > LENDER_CACHE_TTL

\* C15: a get that finds an entry older than the TTL reports a miss and
\* removes the entry, the others keeping their order; the caller then opens
\* the file again (one more load) and, the document read, inserts it at the
\* end of the store with the current time.
C15_ExpiredEntryReloaded ==
    [][\A t \in Threads :
          /\ (th[t].pc = "in_get" /\ th'[t].pc # "in_get"
                /\ Expired(store, ThreadKey(t), now)) =>
                /\ th'[t].pc = "read"
                /\ th'[t].ret = Pending
                /\ store' = StoreWithout(store, StoreIndex(store, ThreadKey(t), 1))
          /\ (th[t].pc = "read" /\ th[t].dropped /\ th'[t].pc # "read") =>
                /\ loads' = loads + 1
                /\ th'[t].pc \in {"set", "returned"}
                /\ th'[t].pc = "set" => th'[t].cfg = disk[ThreadKey(t)].doc
          /\ (th[t].pc = "in_set" /\ th[t].dropped /\ th'[t].pc # "in_set") =>
                /\ store' # <<>>
                /\ store'[Len(store')] =
                      [key |-> ThreadKey(t), data |-> th[t].cfg, ts |-> now]
      ]_vars

\* a caller found its entry expired, read the file again and re-inserted it
C15_Witness ==
    \E t \in Threads :
        /\ th[t].pc = "returned" /\ th[t].dropped /\ th[t].inserted
        /\ now > LENDER_CACHE_TTL
        /\ store # <<>>
        /\ store[Len(store)].key = ThreadKey(t)
        /\ store[Len(store)].ts = now
        /\ loads >= 2


ThreadFile(t) ==
    IF ThreadKey(t) \in DOMAIN disk THEN disk[ThreadKey(t)] ELSE FileMissing

\* a caller came back from a lookup that found no document or could not
\* load it
LoadFailed(t) ==
    /\ th[t].pc = "returned"
    /\ ~th[t].inserted
    /\ th[t].ret.meta.fallback = "true"

\* C16 as stated: a lookup that finds no document or fails to load it
\* leaves the cache contents as they were.
C16_CacheUntouchedOnFailure ==
    \A t \in Threads : LoadFailed(t) => ~th[t].dropped

\* C16: a lookup that finds no document or fails to load it raises nothing,
\* inserts nothing for the key (only a document that was read is handed to
\* set), changes the cache at most by the removal of an expired entry for
\* that key in its get, and the caller is given the fallback record.
C16_NothingInsertedOnFailure ==
    [][\A t \in Threads :
          /\ (th[t].pc = "in_get" /\ th'[t].pc = "read") =>
                \/ store' = store
                \/ /\ Expired(store, ThreadKey(t), now)
                   /\ store' = StoreWithout(store, StoreIndex(store, ThreadKey(t), 1))
          /\ (th[t].pc = "read" /\ th'[t].pc = "returned") =>
                /\ store' = store
                /\ cacheSets' = cacheSets
                /\ ~th'[t].inserted
                /\ th'[t].ret = FallbackPreview(LoadToken, LoadRow(th[t].name))
                /\ th'[t].ret.st = "record"
                /\ th'[t].ret.meta.fallback = "true"
          /\ (th[t].pc = "read" /\ th'[t].pc # "read" /\ ThreadFile(t).st # "ok") =>
                th'[t].pc = "returned"
          /\ (th[t].pc = "read" /\ th'[t].pc = "set") =>
                /\ ThreadFile(t).st = "ok"
                /\ th'[t].cfg = ThreadFile(t).doc
      ]_vars

\* the entry for "x" had expired and the file could not be read again: the
\* caller got the fallback record and "x" is no longer cached
C16_Witness ==
    \E t \in Threads :
        /\ LoadFailed(t)
        /\ th[t].name = <<"x">>
        /\ th[t].dropped
        /\ <<"x">> \notin KeySet(store)
        /\ InRecent(<<"x">>)


InLockedOp(t) == th[t].pc \in {"in_get", "in_set"}

RunsCollapsedKey(name) == CollapseWhitespace(Lower(Strip(name)))

\* C17: the cache key of a name is the name trimmed, lowercased and with
\* every whitespace run replaced by one underscore, so two names that differ
\* only in case and whitespace get the same key, and the key of a key is the
\* key itself.
C17_EquivalentNamesSameKey ==
    pc = "norm_done" =>
        /\ keys[1] = RunsCollapsedKey(raw[1])
        /\ RunsCollapsedKey(raw[1]) = RunsCollapsedKey(raw[2]) => keys[1] = keys[2]
        /\ keys[3] = keys[1]
        /\ keys[4] = keys[2]


\* C19: the lender config cache is the only mutable state that requests
\* share, and a request that changes shared state holds the cache lock while
\* it does: the handler's own dictionaries change only under the lock.
C19_SharedStateUnderLock ==
    [][\A t \in Threads :
          (/\ req'[t] # req[t]
           /\ \/ previewCache' # previewCache
              \/ lenderJsonCache' # lenderJsonCache) => lock = t
      ]_vars

\* C20: no row is cached, every request answered with a page has made its
\* own remote lookup for the token.
C20_FreshLookupEveryRequest ==
    \A t \in Threads :
        (req[t].pc = "responded" /\ req[t].status = 200) => req[t].looked


MaxAttempts == (IF retries > 0 THEN retries ELSE 0) + 1

\* C22: whatever the remote outcomes and the configured retry count, zero
\* and negative counts included, a call makes at most max(retries, 0) + 1
\* attempts and comes to its end.
C22_CallTerminates ==
    /\ [](calls <= MaxAttempts)
    /\ [](pc = "http" => calls < MaxAttempts)
    /\ (pc \in {"http", "config"}) ~> (pc = "done")

\* a negative retry count: one attempt, a server failure, and the call ended
C22_Witness ==
    /\ retries = -1
    /\ calls = 1
    /\ ServerFailure(last)
    /\ pc = "done"
    /\ result.st = "none"


\* the received body is a list of at least one element
ListReceived ==
    Succeeded(last) /\ body.kind = "json" /\ body.payload.isList
        /\ Len(body.payload.items) >= 1

\* C23: of several rows only the first counts: the lookup gives what it
\* would give for the first element alone, a first row with an invalid
\* destination or no partner gives None whatever follows it, and a valid
\* first row is the one used.
C23_OnlyFirstRowConsidered ==
    ListReceived =>
        LET first == body.payload.items[1]
            alone == JsonBody(ListPayload(body.payload.hasValue, <<first>>))
        IN  /\ row = _dab_lookup(alone)
            /\ (/\ first.isRow
                /\ \/ ~HttpAbsolute(RowDestination(first.row))
                   \/ ~Truthy(first.row.lender))
               => pc = "done" /\ result.st = "none"
            /\ (/\ first.isRow
                /\ HttpAbsolute(RowDestination(first.row))
                /\ Truthy(first.row.lender))
               => /\ row.st = "row"
                  /\ row.destination_url = RowDestination(first.row)
                  /\ row.lender = first.row.lender

\* an ftp row followed by a valid row: the call returned None
C23_Witness ==
    /\ ListReceived
    /\ Len(body.payload.items) = 2
    /\ body.payload.items[1].isRow
    /\ ~HttpAbsolute(RowDestination(body.payload.items[1].row))
    /\ body.payload.items[2].isRow
    /\ HttpAbsolute(RowDestination(body.payload.items[2].row))
    /\ pc = "done"
    /\ result.st = "none"


C25_CacheOnlyAfterValidRow ==
    [][/\ (\/ store' # store
           \/ cacheGets' # cacheGets
           \/ cacheSets' # cacheSets
           \/ loads' # loads)
          => /\ pc = "config"
             /\ row.st = "row"
             /\ HttpAbsolute(row.destination_url)
             /\ Truthy(row.lender)
       /\ (pc' = "done" /\ result'.st = "none")
          => UNCHANGED <<store, cacheGets, cacheSets, loads>>]_vars

\* the lookup came back without a row while the cache held two entries, the
\* older one past its TTL: the call returned None and the cache is as it was
C25_Witness ==
    /\ pc = "done"
    /\ result.st = "none"
    /\ calls >= 1
    /\ Succeeded(last)
    /\ cacheGets = 0
    /\ Len(store) = 2
    /\ store[1].key = PayMeKey
    /\ now - store[1].ts >= LENDER_CACHE_TTL


\* thread t is inside get and the entry of its key is within the TTL
ReadHit(t) ==
    /\ th[t].pc = "in_get"
    /\ lock = t
    /\ \E i \in 1..Len(store) :
          /\ store[i].key = ThreadKey(t)
          /\ now - store[i].ts <= LENDER_CACHE_TTL

\* C26: a read hit moves the entry to the most recent position and keeps
\* its timestamp and data; a get on an entry older than the TTL removes it
\* whatever was read in between; an entry's timestamp changes only in a set
\* of its key, which stamps it with the time of the set.
C26_ReadKeepsTimestamp ==
    [][/\ \A t \in Threads :
            (ReadHit(t) /\ th'[t].pc # "in_get")
                => \E i \in 1..Len(store) :
                      /\ store[i].key = ThreadKey(t)
                      /\ store' = Append(StoreWithout(store, i), store[i])
       /\ \A t \in Threads :
            (/\ th[t].pc = "in_get"
             /\ th'[t].pc # "in_get"
             /\ \E i \in 1..Len(store) :
                   /\ store[i].key = ThreadKey(t)
                   /\ now - store[i].ts > LENDER_CACHE_TTL)
                => /\ th'[t].pc = "read"
                   /\ \A j \in 1..Len(store') : store'[j].key # ThreadKey(t)
       /\ \A i \in 1..Len(store) : \A j \in 1..Len(store') :
            (store[i].key = store'[j].key /\ store[i].ts # store'[j].ts)
                => \E t \in Threads :
                      /\ th[t].pc = "in_set"
                      /\ th'[t].pc = "returned"
                      /\ ThreadKey(t) = store[i].key
                      /\ store'[j].ts = now]_vars

\* one caller was served the entry from the cache; later the other caller's
\* get found the same entry past its TTL and removed it
C26_Witness ==
    \E t, u \in Threads :
        /\ t # u
        /\ th[t].pc = "returned"
        /\ ~th[t].inserted
        /\ ~th[t].dropped
        /\ th[t].ret.meta.fallback = "absent"
        /\ th[u].pc = "read"
        /\ th[u].dropped
        /\ th[u].name = th[t].name


\* C27: whatever the interleaving of two requests for a token whose cached
\* preview has expired, no request ends by raising from the cache
\* bookkeeping: the del of the expired entry always finds its key.
C27_NoRaiseFromBookkeeping ==
    /\ \A t \in Threads : req[t].status # 500
    /\ \A t \in Threads :
          req[t].pc = "del" => previewCache[req[t].token].has


\* C28: the image URL on the page of a token whose row names a partner
\* leads the image handler to that token's record: the path segment the
\* image handler takes as its token is the token of the page, and the row
\* it finds under the segment is the row of that token.
C28_ImageUrlServable ==
    \A t \in Threads :
        req[t].origin # <<>>
            => /\ req[t].token = req[t].origin
               /\ remote[req[t].origin].has
                     => RemoteRow(req[t].token) = remote[req[t].origin]

====
